---- MODULE Spec2Model ----
(***************************************************************************)
(* Model of send-to-printer.c: one raw print job submitted through the     *)
(* Windows spooler API.  main() is a straight-line sequence of blocking    *)
(* spooler calls; every call is one action, and the program counter pc     *)
(* names the source line of the next spooler call.  The outcome of each    *)
(* call is chosen by the spooler, i.e. nondeterministically.               *)
(***************************************************************************)
EXTENDS Integers, Sequences, FiniteSets

(* ---------------------------------------------------------------- bounds *)

\* job identifiers the spooler may hand out are 1..MaxJobId (0 means failure)
MaxJobId == 2

\* GetLastError() values after a failed call are 1..MaxErrorCode
MaxErrorCode == 2

\* an uninitialised DWORD holds some value in 0..MaxGarbage
MaxGarbage == 1

(* ------------------------------------------------------ program constants *)

\* the test data with a fifth blank line before the cut sequence
data_fiveBlankLines ==
    << 27, 64,
       84, 69, 83, 84, 10,
       76, 105, 110, 101, 32, 49, 10,
       76, 105, 110, 101, 32, 50, 10,
       10, 10, 10, 10, 10,
       29, 86, 0 >>

\* unsigned char data[] (ESC/POS test data), byte by byte
data ==
    << 27, 64,
       84, 69, 83, 84, 10,
       76, 105, 110, 101, 32, 49, 10,
       76, 105, 110, 101, 32, 50, 10,
       10, 10, 10, 10,
       29, 86, 0 >>

\* DWORD dwDataSize = sizeof(data)
dwDataSize == Len(data)

ErrorCodes == 1..MaxErrorCode
JobIds == 1..MaxJobId
Garbage == 0..MaxGarbage

\* the content of an uninitialised DOC_INFO_1
UninitDocInfo == [pDocName |-> "?", pOutputFile |-> "?", pDatatype |-> "?"]

VARIABLES
    pc,             \* source line of the next spooler call, or "done"
    hPrinter,       \* HANDLE hPrinter: "unset", "open" or "closed"
    DocInfo,        \* DOC_INFO_1 DocInfo
    dwJob,          \* DWORD dwJob
    dwBytesWritten, \* DWORD dwBytesWritten
    lastError,      \* the thread's last-error code (GetLastError)
    calls,          \* the spooler calls made so far, in order, with outcome
    doc,            \* the job descriptors the spooler received
    out,            \* the lines printed on stdout
    exitCode        \* <<>> while running, <<c>> once main returned c

vars == << pc, hPrinter, DocInfo, dwJob, dwBytesWritten, lastError,
           calls, doc, out, exitCode >>

\* one spooler call: function name, result, bytes requested, bytes accepted
Call(op, ok, cb, n) == [op |-> op, ok |-> ok, cb |-> cb, n |-> n]

\* one printf: the format's text and the value of its %d (0 when it has none)
Line(text, arg) == [text |-> text, arg |-> arg]

Init ==
    /\ pc = "L32"
    /\ hPrinter = "unset"
    /\ DocInfo = UninitDocInfo
    /\ dwJob \in Garbage
    /\ dwBytesWritten \in Garbage
    /\ lastError = 0
    /\ calls = << >>
    /\ doc = << >>
    /\ out = << Line("Windows RAW Printer API Test", 0),
                Line("=============================", 0) >>
    /\ exitCode = << >>

(* ------------------------------------------------------------- operations *)

\* OpenPrinter with the early return of the failure branch missing
OpenPrinter_noReturn ==
    /\ pc = "L32"
    /\ \E ok \in BOOLEAN, err \in ErrorCodes :
        /\ calls' = Append(calls, Call("OpenPrinter", ok, 0, 0))
        /\ IF ok
           THEN /\ hPrinter' = "open"
                /\ out' = Append(out, Line("OK: Printer opened", 0))
                /\ UNCHANGED lastError
           ELSE /\ lastError' = err
                /\ out' = out \o << Line("ERROR: Could not open printer", 0),
                                    Line("Error code: %d", err) >>
                /\ UNCHANGED hPrinter
        /\ pc' = "L46"
    /\ UNCHANGED << DocInfo, dwJob, dwBytesWritten, doc, exitCode >>

OpenPrinter ==
    /\ pc = "L32"
    /\ \E ok \in BOOLEAN, err \in ErrorCodes :
        /\ calls' = Append(calls, Call("OpenPrinter", ok, 0, 0))
        /\ IF ok
           THEN /\ hPrinter' = "open"
                /\ out' = Append(out, Line("OK: Printer opened", 0))
                /\ pc' = "L46"
                /\ UNCHANGED << lastError, exitCode >>
           ELSE /\ lastError' = err
                /\ out' = out \o << Line("ERROR: Could not open printer", 0),
                                    Line("Error code: %d", err) >>
                /\ exitCode' = << 1 >>
                /\ pc' = "done"
                /\ UNCHANGED hPrinter
    /\ UNCHANGED << DocInfo, dwJob, dwBytesWritten, doc >>

\* StartDocPrinter that leaves the data type of the descriptor at the
\* spooler's default (NULL) instead of "RAW"
StartDocPrinter_defaultType ==
    /\ pc = "L46"
    /\ DocInfo' = [pDocName |-> "RAW Test", pOutputFile |-> "NULL",
                   pDatatype |-> "NULL"]
    /\ \E job \in {0} \cup JobIds, err \in ErrorCodes :
        /\ dwJob' = job
        /\ calls' = Append(calls, Call("StartDocPrinter", job # 0, 0, 0))
        /\ doc' = Append(doc, DocInfo')
        /\ IF job = 0
           THEN /\ lastError' = err
                /\ out' = out \o << Line("ERROR: Could not start document", 0),
                                    Line("Error code: %d", err) >>
                /\ pc' = "L50"
           ELSE /\ out' = Append(out, Line("OK: Document started (Job ID: %d)", job))
                /\ pc' = "L57"
                /\ UNCHANGED lastError
    /\ UNCHANGED << hPrinter, dwBytesWritten, exitCode >>

\* StartDocPrinter whose failure branch returns without ClosePrinter
StartDocPrinter_noClose ==
    /\ pc = "L46"
    /\ DocInfo' = [pDocName |-> "RAW Test", pOutputFile |-> "NULL",
                   pDatatype |-> "RAW"]
    /\ \E job \in {0} \cup JobIds, err \in ErrorCodes :
        /\ dwJob' = job
        /\ calls' = Append(calls, Call("StartDocPrinter", job # 0, 0, 0))
        /\ doc' = Append(doc, DocInfo')
        /\ IF job = 0
           THEN /\ lastError' = err
                /\ out' = out \o << Line("ERROR: Could not start document", 0),
                                    Line("Error code: %d", err) >>
                /\ exitCode' = << 1 >>
                /\ pc' = "done"
           ELSE /\ out' = Append(out, Line("OK: Document started (Job ID: %d)", job))
                /\ pc' = "L57"
                /\ UNCHANGED << lastError, exitCode >>
    /\ UNCHANGED << hPrinter, dwBytesWritten >>

StartDocPrinter ==
    /\ pc = "L46"
    /\ DocInfo' = [pDocName |-> "RAW Test", pOutputFile |-> "NULL",
                   pDatatype |-> "RAW"]
    /\ \E job \in {0} \cup JobIds, err \in ErrorCodes :
        /\ dwJob' = job
        /\ calls' = Append(calls, Call("StartDocPrinter", job # 0, 0, 0))
        /\ doc' = Append(doc, DocInfo')
        /\ IF job = 0
           THEN /\ lastError' = err
                /\ out' = out \o << Line("ERROR: Could not start document", 0),
                                    Line("Error code: %d", err) >>
                /\ pc' = "L50"
           ELSE /\ out' = Append(out, Line("OK: Document started (Job ID: %d)", job))
                /\ pc' = "L57"
                /\ UNCHANGED lastError
    /\ UNCHANGED << hPrinter, dwBytesWritten, exitCode >>

\* StartPagePrinter whose failure branch reports the error but goes on to
\* the write
StartPagePrinter_fallThrough ==
    /\ pc = "L57"
    /\ \E ok \in BOOLEAN, err \in ErrorCodes :
        /\ calls' = Append(calls, Call("StartPagePrinter", ok, 0, 0))
        /\ IF ok
           THEN /\ out' = Append(out, Line("OK: Page started", 0))
                /\ UNCHANGED lastError
           ELSE /\ lastError' = err
                /\ out' = Append(out, Line("ERROR: Could not start page", 0))
        /\ pc' = "L67"
    /\ UNCHANGED << hPrinter, DocInfo, dwJob, dwBytesWritten, doc, exitCode >>

\* StartPagePrinter whose failure branch closes the printer without ending
\* the document
StartPagePrinter_noEndDoc ==
    /\ pc = "L57"
    /\ \E ok \in BOOLEAN, err \in ErrorCodes :
        /\ calls' = Append(calls, Call("StartPagePrinter", ok, 0, 0))
        /\ IF ok
           THEN /\ out' = Append(out, Line("OK: Page started", 0))
                /\ pc' = "L67"
                /\ UNCHANGED lastError
           ELSE /\ lastError' = err
                /\ out' = Append(out, Line("ERROR: Could not start page", 0))
                /\ pc' = "L60"
    /\ UNCHANGED << hPrinter, DocInfo, dwJob, dwBytesWritten, doc, exitCode >>

StartPagePrinter ==
    /\ pc = "L57"
    /\ \E ok \in BOOLEAN, err \in ErrorCodes :
        /\ calls' = Append(calls, Call("StartPagePrinter", ok, 0, 0))
        /\ IF ok
           THEN /\ out' = Append(out, Line("OK: Page started", 0))
                /\ pc' = "L67"
                /\ UNCHANGED lastError
           ELSE /\ lastError' = err
                /\ out' = Append(out, Line("ERROR: Could not start page", 0))
                /\ pc' = "L59"
    /\ UNCHANGED << hPrinter, DocInfo, dwJob, dwBytesWritten, doc, exitCode >>

\* WritePrinter that writes again, once, after a write that failed
WritePrinter_retry ==
    /\ pc = "L67"
    /\ \E ok \in BOOLEAN, n \in 0..dwDataSize, err \in ErrorCodes :
        /\ calls' = Append(calls, Call("WritePrinter", ok, dwDataSize, n))
        /\ dwBytesWritten' = n
        /\ IF ok
           THEN /\ out' = Append(out, Line("OK: Wrote %d bytes", n))
                /\ pc' = "L79"
                /\ UNCHANGED lastError
           ELSE /\ lastError' = err
                /\ out' = out \o << Line("ERROR: Could not write to printer", 0),
                                    Line("Error code: %d", err) >>
                /\ pc' = IF \E i \in DOMAIN calls : calls[i].op = "WritePrinter"
                         THEN "L70" ELSE "L67"
    /\ UNCHANGED << hPrinter, DocInfo, dwJob, doc, exitCode >>

\* WritePrinter whose failure branch ends the document without ending the page
WritePrinter_noEndPage ==
    /\ pc = "L67"
    /\ \E ok \in BOOLEAN, n \in 0..dwDataSize, err \in ErrorCodes :
        /\ calls' = Append(calls, Call("WritePrinter", ok, dwDataSize, n))
        /\ dwBytesWritten' = n
        /\ IF ok
           THEN /\ out' = Append(out, Line("OK: Wrote %d bytes", n))
                /\ pc' = "L79"
                /\ UNCHANGED lastError
           ELSE /\ lastError' = err
                /\ out' = out \o << Line("ERROR: Could not write to printer", 0),
                                    Line("Error code: %d", err) >>
                /\ pc' = "L71"
    /\ UNCHANGED << hPrinter, DocInfo, dwJob, doc, exitCode >>

\* WritePrinter whose failure branch reports the error but falls through
WritePrinter_fallThrough ==
    /\ pc = "L67"
    /\ \E ok \in BOOLEAN, n \in 0..dwDataSize, err \in ErrorCodes :
        /\ calls' = Append(calls, Call("WritePrinter", ok, dwDataSize, n))
        /\ dwBytesWritten' = n
        /\ IF ok
           THEN /\ out' = Append(out, Line("OK: Wrote %d bytes", n))
                /\ UNCHANGED lastError
           ELSE /\ lastError' = err
                /\ out' = out \o << Line("ERROR: Could not write to printer", 0),
                                    Line("Error code: %d", err) >>
        /\ pc' = "L79"
    /\ UNCHANGED << hPrinter, DocInfo, dwJob, doc, exitCode >>

WritePrinter ==
    /\ pc = "L67"
    /\ \E ok \in BOOLEAN, n \in 0..dwDataSize, err \in ErrorCodes :
        /\ calls' = Append(calls, Call("WritePrinter", ok, dwDataSize, n))
        /\ dwBytesWritten' = n
        /\ IF ok
           THEN /\ out' = Append(out, Line("OK: Wrote %d bytes", n))
                /\ pc' = "L79"
                /\ UNCHANGED lastError
           ELSE /\ lastError' = err
                /\ out' = out \o << Line("ERROR: Could not write to printer", 0),
                                    Line("Error code: %d", err) >>
                /\ pc' = "L70"
    /\ UNCHANGED << hPrinter, DocInfo, dwJob, doc, exitCode >>

\* EndPagePrinter with lines 70 and 71 swapped: on the write-failure path the
\* document is ended before the page
EndPagePrinter_swapped ==
    /\ pc \in {"L70", "L79"}
    /\ \E ok \in BOOLEAN, okDoc \in BOOLEAN, err \in ErrorCodes :
        /\ lastError' = IF ok THEN lastError ELSE err
        /\ IF pc = "L79"
           THEN /\ calls' = Append(calls, Call("EndPagePrinter", ok, 0, 0))
                /\ out' = (IF ok THEN out
                           ELSE Append(out, Line("ERROR: Could not end page", 0)))
                          \o << Line("OK: Page ended", 0) >>
                /\ pc' = "L86"
           ELSE /\ calls' = calls \o << Call("EndDocPrinter", okDoc, 0, 0),
                                        Call("EndPagePrinter", ok, 0, 0) >>
                /\ out' = out
                /\ pc' = "L72"
    /\ UNCHANGED << hPrinter, DocInfo, dwJob, dwBytesWritten, doc, exitCode >>

\* EndPagePrinter whose failure on the success path is treated as fatal:
\* the error is reported and the job is torn down through the failure exit
EndPagePrinter_fatal ==
    /\ pc \in {"L70", "L79"}
    /\ \E ok \in BOOLEAN, err \in ErrorCodes :
        /\ calls' = Append(calls, Call("EndPagePrinter", ok, 0, 0))
        /\ lastError' = IF ok THEN lastError ELSE err
        /\ IF pc = "L79"
           THEN IF ok
                THEN /\ out' = Append(out, Line("OK: Page ended", 0))
                     /\ pc' = "L86"
                ELSE /\ out' = Append(out, Line("ERROR: Could not end page", 0))
                     /\ pc' = "L71"
           ELSE /\ out' = out
                /\ pc' = "L71"
    /\ UNCHANGED << hPrinter, DocInfo, dwJob, dwBytesWritten, doc, exitCode >>

EndPagePrinter ==
    /\ pc \in {"L70", "L79"}
    /\ \E ok \in BOOLEAN, err \in ErrorCodes :
        /\ calls' = Append(calls, Call("EndPagePrinter", ok, 0, 0))
        /\ lastError' = IF ok THEN lastError ELSE err
        /\ IF pc = "L79"
           THEN /\ out' = (IF ok THEN out
                           ELSE Append(out, Line("ERROR: Could not end page", 0)))
                          \o << Line("OK: Page ended", 0) >>
                /\ pc' = "L86"
           ELSE /\ out' = out
                /\ pc' = "L71"
    /\ UNCHANGED << hPrinter, DocInfo, dwJob, dwBytesWritten, doc, exitCode >>

\* EndDocPrinter whose failure-path call sites return without ClosePrinter
EndDocPrinter_noClose ==
    /\ pc \in {"L59", "L71", "L86"}
    /\ \E ok \in BOOLEAN, err \in ErrorCodes :
        /\ calls' = Append(calls, Call("EndDocPrinter", ok, 0, 0))
        /\ lastError' = IF ok THEN lastError ELSE err
        /\ IF pc = "L86"
           THEN /\ out' = (IF ok THEN out
                           ELSE Append(out, Line("ERROR: Could not end document", 0)))
                          \o << Line("OK: Document ended", 0) >>
                /\ pc' = "L93"
                /\ UNCHANGED exitCode
           ELSE /\ out' = out
                /\ exitCode' = << 1 >>
                /\ pc' = "done"
    /\ UNCHANGED << hPrinter, DocInfo, dwJob, dwBytesWritten, doc >>

EndDocPrinter ==
    /\ pc \in {"L59", "L71", "L86"}
    /\ \E ok \in BOOLEAN, err \in ErrorCodes :
        /\ calls' = Append(calls, Call("EndDocPrinter", ok, 0, 0))
        /\ lastError' = IF ok THEN lastError ELSE err
        /\ IF pc = "L86"
           THEN /\ out' = (IF ok THEN out
                           ELSE Append(out, Line("ERROR: Could not end document", 0)))
                          \o << Line("OK: Document ended", 0) >>
                /\ pc' = "L93"
           ELSE /\ out' = out
                /\ pc' = IF pc = "L59" THEN "L60" ELSE "L72"
    /\ UNCHANGED << hPrinter, DocInfo, dwJob, dwBytesWritten, doc, exitCode >>

ClosePrinter ==
    /\ pc \in {"L50", "L60", "L72", "L93"}
    /\ \E ok \in BOOLEAN, err \in ErrorCodes :
        /\ calls' = Append(calls, Call("ClosePrinter", ok, 0, 0))
        /\ lastError' = IF ok THEN lastError ELSE err
        /\ hPrinter' = IF ok THEN "closed" ELSE hPrinter
    /\ IF pc = "L93"
       THEN /\ out' = out \o << Line("SUCCESS: Print job submitted!", 0),
                                Line("** CHECK YOUR PRINTER **", 0) >>
            /\ exitCode' = << 0 >>
       ELSE /\ out' = out
            /\ exitCode' = << 1 >>
    /\ pc' = "done"
    /\ UNCHANGED << DocInfo, dwJob, dwBytesWritten, doc >>

Next ==
    \/ OpenPrinter
    \/ StartDocPrinter
    \/ StartPagePrinter
    \/ WritePrinter
    \/ EndPagePrinter
    \/ EndDocPrinter
    \/ ClosePrinter

Spec == Init /\ [][Next]_vars

\* every spooler call is blocking and returns: a step that can be taken is
\* eventually taken
FairSpec == Spec /\ WF_vars(Next)

(* ------------------------------------------------- vocabulary of the claims *)

\* the positions in the call trace of the calls to one spooler function
Idx(op) == {i \in DOMAIN calls : calls[i].op = op}

Count(op) == Cardinality(Idx(op))

Succeeded(op) == \E i \in Idx(op) : calls[i].ok

Failed(op) == \E i \in Idx(op) : ~calls[i].ok

\* how many times a line with this text was printed
Prints(text) == Cardinality({i \in DOMAIN out : out[i].text = text})

Printed(text) == Prints(text) > 0

Done == pc = "done"

SuccessBanner == "SUCCESS: Print job submitted!"

\* the setup steps in lifecycle order, and the error line of each
SetupOps ==
    << "OpenPrinter", "StartDocPrinter", "StartPagePrinter", "WritePrinter" >>

SetupError ==
    << "ERROR: Could not open printer", "ERROR: Could not start document",
       "ERROR: Could not start page", "ERROR: Could not write to printer" >>

TeardownOps == {"EndPagePrinter", "EndDocPrinter", "ClosePrinter"}

\* the lines that report a failure of a teardown step; the program has no
\* format string that reports a failure of ClosePrinter
WarningFor(op) ==
    CASE op = "EndPagePrinter" -> {"ERROR: Could not end page"}
      [] op = "EndDocPrinter" -> {"ERROR: Could not end document"}
      [] OTHER -> {}

Warned(op) == \E i \in DOMAIN out : out[i].text \in WarningFor(op)

\* position of a call in the teardown order, 0 for a setup call
Rank(op) ==
    CASE op = "EndPagePrinter" -> 1
      [] op = "EndDocPrinter" -> 2
      [] op = "ClosePrinter" -> 3
      [] OTHER -> 0

\* a write that failed outright or was accepted only in part
WriteFell(i) == ~calls[i].ok \/ calls[i].n < calls[i].cb

(* ------------------------------------------------------------------ claims *)

\* C1: ClosePrinter is invoked exactly once if OpenPrinter succeeded and is
\* never invoked if OpenPrinter failed, whatever the other calls return.
C1_CloseOnceIffOpened ==
    /\ Count("ClosePrinter") <= 1
    /\ ~Succeeded("OpenPrinter") => Count("ClosePrinter") = 0
    /\ (Done /\ Succeeded("OpenPrinter")) => Count("ClosePrinter") = 1

C1_Witness ==
    /\ Done
    /\ Succeeded("OpenPrinter")
    /\ Failed("WritePrinter")
    /\ Failed("EndDocPrinter")
    /\ Count("ClosePrinter") = 1

\* C2: a submission that ended in success wrote the whole payload; a write
\* that reports fewer accepted bytes than the payload length ends the
\* submission in failure, without the success banner.
C2_ShortWriteIsFailure ==
    /\ (Done /\ exitCode = << 0 >>) => dwBytesWritten = dwDataSize
    /\ \A i \in Idx("WritePrinter") :
          calls[i].n < calls[i].cb =>
              /\ ~Printed(SuccessBanner)
              /\ Done => exitCode = << 1 >>

\* C3: after a write that failed or under-delivered, end-page and end-job are
\* each invoked exactly once, after the write, and the submission reports
\* the write failure whatever the two calls return.
C3_WriteErrorSurvivesTeardown ==
    Done =>
        \A i \in Idx("WritePrinter") :
            WriteFell(i) =>
                /\ Count("EndPagePrinter") = 1
                /\ Count("EndDocPrinter") = 1
                /\ \A j \in Idx("EndPagePrinter") \cup Idx("EndDocPrinter") : j > i
                /\ exitCode = << 1 >>
                /\ ~Printed(SuccessBanner)

\* C4: if StartDocPrinter fails then end-job, start-page, end-page and write
\* are never invoked, close is invoked exactly once and the submission fails.
C4_JobStartFailure ==
    Failed("StartDocPrinter") =>
        /\ Count("EndDocPrinter") = 0
        /\ Count("StartPagePrinter") = 0
        /\ Count("EndPagePrinter") = 0
        /\ Count("WritePrinter") = 0
        /\ ~Printed(SuccessBanner)
        /\ Done => (Count("ClosePrinter") = 1 /\ exitCode = << 1 >>)

C4_Witness ==
    /\ Done
    /\ Failed("StartDocPrinter")
    /\ calls[Len(calls)].op = "ClosePrinter"
    /\ Printed("ERROR: Could not start document")

\* C5: if StartPagePrinter fails then end-job is invoked exactly once and
\* then close exactly once, write and end-page are never invoked, and the
\* result is the page-start failure whether end-job succeeds or fails.
C5_PageStartFailure ==
    Failed("StartPagePrinter") =>
        /\ Count("WritePrinter") = 0
        /\ Count("EndPagePrinter") = 0
        /\ Printed("ERROR: Could not start page")
        /\ ~Printed(SuccessBanner)
        /\ ~Warned("EndDocPrinter")
        /\ Done =>
              /\ Count("EndDocPrinter") = 1
              /\ Count("ClosePrinter") = 1
              /\ calls[Len(calls) - 1].op = "EndDocPrinter"
              /\ calls[Len(calls)].op = "ClosePrinter"
              /\ exitCode = << 1 >>

C5_Witness ==
    /\ Done
    /\ Failed("StartPagePrinter")
    /\ Failed("EndDocPrinter")
    /\ exitCode = << 1 >>

\* C6: if OpenPrinter fails the submission returns failure at once and no
\* other spooler call is ever made.
C6_OpenFailure ==
    Failed("OpenPrinter") =>
        /\ Len(calls) = 1
        /\ Done
        /\ exitCode = << 1 >>
        /\ Printed("ERROR: Could not open printer")
        /\ ~Printed(SuccessBanner)

C6_Witness ==
    /\ Done
    /\ Failed("OpenPrinter")
    /\ hPrinter = "unset"

\* C7: the teardown calls occur in the order end-page, end-job, close: no
\* setup call and no earlier teardown call follows a teardown call, and
\* close is the last spooler call of the submission.
C7_TeardownOrder ==
    /\ \A i, j \in DOMAIN calls :
          (i < j /\ Rank(calls[i].op) > 0) =>
              Rank(calls[j].op) > Rank(calls[i].op)
    /\ \A i \in Idx("ClosePrinter") : i = Len(calls)
    /\ (Done /\ Succeeded("OpenPrinter")) =>
          calls[Len(calls)].op = "ClosePrinter"

C7_Witness ==
    /\ Done
    /\ Failed("WritePrinter")
    /\ Count("EndPagePrinter") = 1
    /\ Count("EndDocPrinter") = 1
    /\ Count("ClosePrinter") = 1

C9_NoTeardownFailureDropped ==
    Done => \A op \in TeardownOps : Failed(op) => Warned(op)

AllOps ==
    { "OpenPrinter", "StartDocPrinter", "StartPagePrinter", "WritePrinter" }
        \cup TeardownOps

\* C11: the lifecycle is linear with no step skipped: the k-th setup step
\* (open, start-job, start-page, write) is the k-th spooler call, and every
\* call before it is the preceding setup step and succeeded; so write is
\* invoked only on a handle with a started job and a started page.
C11_LinearLifecycle ==
    \A k \in DOMAIN SetupOps :
        \A i \in Idx(SetupOps[k]) :
            /\ i = k
            /\ \A j \in 1..(i - 1) :
                  calls[j].op = SetupOps[j] /\ calls[j].ok

C11_Witness ==
    /\ pc = "L79"
    /\ Count("WritePrinter") = 1
    /\ Succeeded("StartDocPrinter")
    /\ Succeeded("StartPagePrinter")

\* C12: no step is retried: each of the seven steps is invoked at most once
\* in a submission, whatever the calls return.
C12_NoRetry ==
    \A op \in AllOps : Count(op) <= 1

C12_Witness ==
    /\ Done
    /\ Count("WritePrinter") = 1
    /\ \E i \in Idx("WritePrinter") : ~calls[i].ok /\ calls[i].n < calls[i].cb
    /\ Failed("EndPagePrinter")
    /\ Count("EndPagePrinter") = 1

\* C13: every job is started with a descriptor whose data type is RAW and
\* whose output file is NULL, and every start-job call passes one.
C13_RawDescriptor ==
    /\ Len(doc) = Count("StartDocPrinter")
    /\ \A i \in DOMAIN doc :
          /\ doc[i].pDatatype = "RAW"
          /\ doc[i].pOutputFile = "NULL"

C13_Witness ==
    /\ Len(doc) = 1
    /\ Succeeded("StartDocPrinter")
    /\ dwJob \in JobIds
    /\ DocInfo.pDatatype = "RAW"

\* a write whose whole payload was accepted by the spooler
WroteFully == \E i \in Idx("WritePrinter") : calls[i].ok /\ calls[i].n = calls[i].cb

\* C14 as stated: the payload is 29 bytes long, the write is asked to
\* transmit 29 bytes and a successful submission reports 29 bytes written.
C14_PayloadIs29 ==
    /\ \A i \in Idx("WritePrinter") : Len(data) = 29 /\ calls[i].cb = 29
    /\ (Done /\ exitCode = << 0 >> /\ WroteFully) =>
          /\ dwBytesWritten = 29
          /\ \E l \in DOMAIN out : out[l] = Line("OK: Wrote %d bytes", 29)

\* C14, amended: the payload (initialize sequence, "TEST\n", two text lines,
\* 4 blank lines, cut sequence) is 28 bytes long, the write is asked to
\* transmit exactly 28 bytes, and a successful submission whose write was
\* accepted in full reports 28 bytes written.
C14_PayloadIs28 ==
    /\ Len(data) = 28
    /\ \A i \in Idx("WritePrinter") : calls[i].cb = 28
    /\ (Done /\ exitCode = << 0 >> /\ WroteFully) =>
          /\ dwBytesWritten = 28
          /\ \E l \in DOMAIN out : out[l] = Line("OK: Wrote %d bytes", 28)

C14_Witness ==
    /\ Done
    /\ exitCode = << 0 >>
    /\ WroteFully
    /\ dwBytesWritten = Len(data)
    /\ Prints("OK: Wrote %d bytes") = 1

\* C15: end-page is invoked exactly once if start-page succeeded and never
\* otherwise, end-job exactly once if start-job succeeded and never
\* otherwise; this holds from the moment close is about to be invoked.
AtClose == pc \in {"L50", "L60", "L72", "L93"}

C15_EndsMatchStarts ==
    /\ Count("EndPagePrinter") <= 1
    /\ Count("EndDocPrinter") <= 1
    /\ ~Succeeded("StartPagePrinter") => Count("EndPagePrinter") = 0
    /\ ~Succeeded("StartDocPrinter") => Count("EndDocPrinter") = 0
    /\ (AtClose \/ Done) =>
          /\ Succeeded("StartPagePrinter") => Count("EndPagePrinter") = 1
          /\ Succeeded("StartDocPrinter") => Count("EndDocPrinter") = 1

C15_Witness ==
    /\ pc = "L72"
    /\ Succeeded("StartPagePrinter")
    /\ Failed("WritePrinter")
    /\ Failed("EndPagePrinter")
    /\ Count("EndDocPrinter") = 1

\* C16 as stated: every submission terminates with an exit code, and at
\* termination the device handle is not open: it was never acquired or it
\* has been closed.
C16_TerminatesHandleClosed ==
    /\ <>Done
    /\ [](Done => /\ Len(exitCode) = 1
                  /\ hPrinter \in {"unset", "closed"})

\* C16, amended: every submission terminates with an exit code, and at
\* termination the device handle was either never acquired, or ClosePrinter
\* has been invoked on it exactly once, as the last call, and the handle is
\* closed if that call returned success.
C16_TerminatesCloseAttempted ==
    /\ <>Done
    /\ [](Done =>
            /\ Len(exitCode) = 1
            /\ IF Succeeded("OpenPrinter")
               THEN /\ Count("ClosePrinter") = 1
                    /\ calls[Len(calls)].op = "ClosePrinter"
                    /\ calls[Len(calls)].ok => hPrinter = "closed"
               ELSE /\ hPrinter = "unset"
                    /\ Count("ClosePrinter") = 0)

C16_Witness ==
    /\ Done
    /\ Len(exitCode) = 1
    /\ Succeeded("OpenPrinter")
    /\ Succeeded("ClosePrinter")
    /\ hPrinter = "closed"

\* the lifecycle steps that have a progress line, with their "OK" line and
\* their "ERROR" line
StepOps ==
    << "OpenPrinter", "StartDocPrinter", "StartPagePrinter", "WritePrinter",
       "EndPagePrinter", "EndDocPrinter" >>

OkLine ==
    << "OK: Printer opened", "OK: Document started (Job ID: %d)",
       "OK: Page started", "OK: Wrote %d bytes",
       "OK: Page ended", "OK: Document ended" >>

ErrorLine ==
    << "ERROR: Could not open printer", "ERROR: Could not start document",
       "ERROR: Could not start page", "ERROR: Could not write to printer",
       "ERROR: Could not end page", "ERROR: Could not end document" >>

\* C17: the "OK" line of a step is printed only if the step returned
\* success, and never in the same run as the "ERROR" line of that step.
C17_OkOnlyOnSuccess ==
    \A k \in DOMAIN StepOps :
        Printed(OkLine[k]) =>
            /\ Succeeded(StepOps[k])
            /\ ~Printed(ErrorLine[k])

====
